---- MODULE Spec2Model ----
(***************************************************************************)
(* Model of server.js: an Express + Socket.IO comment board whose whole    *)
(* dataset lives in one JSON file (db.json).  Every handler is an async    *)
(* function: it runs synchronously up to an await, is suspended there, and *)
(* other handlers may run in between.  The model has one action for every  *)
(* stretch of a handler between two awaits.                                *)
(*                                                                         *)
(* Representation                                                          *)
(*   - a JSON value a client may send as parentId is a record [t, v]:      *)
(*     null, undefined (field absent), the number v, the empty string,     *)
(*     the string that is the decimal numeral of v ("1", "2", ...), or a   *)
(*     string that names a property every object inherits ("constructor"); *)
(*   - a text (comment content) is a sequence of characters;               *)
(*   - a timestamp is the number of milliseconds of the server's clock;    *)
(*     toISOString followed by new Date(..) gives back the same number of  *)
(*     milliseconds, so createdAt holds that number;                       *)
(*   - an array is a sequence, an absent updatedAt (null) is <<>>;         *)
(*   - fs.writeJson and fs.readJson act on the file in one step each       *)
(*     (the spec treats the store as a blob with atomic load and save).    *)
(*   - the :id of a route is held as the integer parseInt gives.           *)
(***************************************************************************)
EXTENDS Integers, Sequences, FiniteSets, TLC

----------------------------------------------------------------------------
(* JavaScript values of req.body.parentId                                  *)

JsNull == [t |-> "null", v |-> 0]
JsUndefined == [t |-> "undef", v |-> 0]
JsEmptyString == [t |-> "estr", v |-> 0]
JsNum(n) == [t |-> "num", v |-> n]
JsStr(n) == [t |-> "str", v |-> n]
JsProtoKey == [t |-> "proto", v |-> 0]

\* `const { content, parentId = null } = req.body`: only undefined takes the default
DefaultNull(x) == IF x.t = "undef" THEN JsNull ELSE x

\* the operand of `parentId || null` is falsy
Falsy(x) == x.t \in {"null", "undef", "estr"} \/ (x.t = "num" /\ x.v = 0)

\* `parentId || null`
OrNull(x) == IF Falsy(x) THEN JsNull ELSE x

\* `c.parentId == null` (loose: null or undefined)
LooseNull(x) == x.t \in {"null", "undef"}

\* `c.parentId === id` where id is a number
StrictEqualsNumber(x, n) == x.t = "num" /\ x.v = n

\* `map[c.parentId]` where the keys of map are comment ids: the property key
\* of a number or of a numeral string is the numeral
KeyIs(x, n) == x.t \in {"num", "str"} /\ x.v = n

\* `map[c.parentId]` where map is the object literal {} and the key is no
\* comment id: the lookup gives a value all the same when the key names a
\* property that {} inherits from Object.prototype
Inherited(x) == x.t = "proto"

----------------------------------------------------------------------------
(* Texts                                                                   *)

IsSpace(ch) == ch = " "

RECURSIVE TrimStart(_)
TrimStart(s) ==
  IF s = <<>> THEN s
  ELSE IF IsSpace(Head(s)) THEN TrimStart(Tail(s)) ELSE s

RECURSIVE TrimEnd(_)
TrimEnd(s) ==
  IF s = <<>> THEN s
  ELSE IF IsSpace(s[Len(s)]) THEN TrimEnd(SubSeq(s, 1, Len(s) - 1)) ELSE s

\* String.prototype.trim
Trim(s) == TrimEnd(TrimStart(s))

\* `!content || !content.trim()`
EmptyContent(s) == s = <<>> \/ Trim(s) = <<>>

----------------------------------------------------------------------------
(* The dataset                                                             *)

\* line 175: the six reaction kinds
valid == <<"like", "love", "haha", "wow", "sad", "angry">>

ValidSet == {valid[i] : i \in 1..Len(valid)}

\* line 129: reactions of a new comment
NoReactions == [k \in ValidSet |-> <<>>]

\* line 28: the dataset loadDB writes when db.json does not exist
EmptyDB == [users |-> <<>>, comments |-> <<>>, nextCommentId |-> 1, nextUserId |-> 1]

Range(s) == {s[i] : i \in 1..Len(s)}

\* Array.prototype.indexOf, 0 for -1 (positions count from 1)
IndexOf(s, x) ==
  IF \E i \in 1..Len(s) : s[i] = x
  THEN CHOOSE i \in 1..Len(s) : s[i] = x /\ \A j \in 1..(i - 1) : s[j] # x
  ELSE 0

\* arr.splice(idx, 1)
RemoveAt(s, i) == SubSeq(s, 1, i - 1) \o SubSeq(s, i + 1, Len(s))

\* Number(commentId) of the reactions route; -1 stands for NaN, which equals no id
ToNumber(x) ==
  CASE x.t \in {"num", "str"} -> x.v
    [] x.t \in {"null", "estr"} -> 0
    [] OTHER -> -1

----------------------------------------------------------------------------
(* buildCommentsTree                                                       *)

\* map[id] after the first forEach: a later comment with the same id replaces
\* an earlier one
MapEntry(comments, id) ==
  LET at == {i \in 1..Len(comments) : comments[i].id = id}
  IN comments[CHOOSE i \in at : \A j \in at : j <= i]

\* the comments the second forEach pushes to map[id].replies, in the order of
\* the flat list
RepliesOf(comments, id) ==
  SelectSeq(comments, LAMBDA c : ~LooseNull(c.parentId) /\ KeyIs(c.parentId, id))

\* the object map[id] once the second forEach is over: the copy of the comment
\* and its replies, themselves objects of map
RECURSIVE Node(_, _)
Node(comments, id) ==
  LET kids == RepliesOf(comments, id)
  IN [replies |-> [i \in 1..Len(kids) |-> Node(comments, kids[i].id)]]
       @@ MapEntry(comments, id)

\* a comparison that puts the oldest first
sortFnAscending(a, b) == a.createdAt - b.createdAt

\* line 69: (a,b) => new Date(b.createdAt) - new Date(a.createdAt)
sortFn(a, b) == b.createdAt - a.createdAt

\* Array.prototype.sort is stable: an element goes behind every element that
\* the comparison does not put after it
RECURSIVE InsertSorted(_, _)
InsertSorted(s, x) ==
  IF s = <<>> THEN <<x>>
  ELSE IF sortFn(Head(s), x) <= 0 THEN <<Head(s)>> \o InsertSorted(Tail(s), x)
  ELSE <<x>> \o s

RECURSIVE SortRoots(_)
SortRoots(s) ==
  IF s = <<>> THEN <<>>
  ELSE InsertSorted(SortRoots(SubSeq(s, 1, Len(s) - 1)), s[Len(s)])

buildCommentsTree(comments) ==
  LET top == SelectSeq(comments, LAMBDA c : LooseNull(c.parentId))
      roots == [i \in 1..Len(top) |-> Node(comments, top[i].id)]
  IN SortRoots(roots)

\* buildCommentsTree on objects.  An object is an address into a heap, a
\* sequence of records: the comments of the argument are the objects 1..n, in
\* the order of the array; replies holds addresses.
\* a builder that gives the stored comment itself an empty replies
MapAddressInPlace(n, i) == i

\* line 63: `{ ...c, replies: [] }` is a new object for the i-th comment of
\* n; it takes the next free address
MapAddress(n, i) == n + i

\* heap with obj at address a
Store(heap, a, obj) ==
  [b \in 1..(IF a > Len(heap) THEN a ELSE Len(heap)) |-> IF b = a THEN obj ELSE heap[b]]

\* line 63: the first forEach, from the i-th comment on
RECURSIVE FirstLoop(_, _, _)
FirstLoop(heap, n, i) ==
  IF i > n THEN heap
  ELSE FirstLoop(Store(heap, MapAddress(n, i), [replies |-> <<>>] @@ heap[i]), n, i + 1)

\* map[key] after the first forEach: the address of the object made for the
\* last comment with that id, 0 for undefined
MapLookup(heap, n, key) ==
  LET at == {i \in 1..n : heap[i].id = key}
  IN IF at = {} THEN 0 ELSE MapAddress(n, CHOOSE i \in at : \A j \in at : j <= i)

\* lines 65-68: the second forEach, from the i-th comment on; st holds the
\* heap and roots
RECURSIVE SecondLoop(_, _, _)
SecondLoop(st, n, i) ==
  IF i > n THEN st
  ELSE LET c == st.heap[i]
           own == MapLookup(st.heap, n, c.id)
           up == IF c.parentId.t \in {"num", "str"}
                 THEN MapLookup(st.heap, n, c.parentId.v) ELSE 0
       IN IF LooseNull(c.parentId)
          THEN SecondLoop([st EXCEPT !.roots = Append(@, own)], n, i + 1)
          ELSE IF up # 0
          THEN SecondLoop([st EXCEPT !.heap[up].replies = Append(@, own)], n, i + 1)
          ELSE SecondLoop(st, n, i + 1)

\* the value at address a with the replies followed
RECURSIVE Deref(_, _)
Deref(heap, a) ==
  [heap[a] EXCEPT !.replies = [i \in 1..Len(@) |-> Deref(heap, @[i])]]

\* lines 61-72 on the objects of comments: the heap when the function
\* returns, and the value it returns (roots.sort orders the new array roots)
TreeRun(comments) ==
  LET n == Len(comments)
      st == SecondLoop([heap |-> FirstLoop(comments, n, 1), roots |-> <<>>], n, 1)
  IN [heap |-> st.heap,
      result |-> SortRoots([i \in 1..Len(st.roots) |-> Deref(st.heap, st.roots[i])])]

\* line 67: `map[c.parentId].replies.push(..)` throws TypeError when the
\* lookup gives an inherited property, which is truthy and has no replies
buildThrows(comments) ==
  \E i \in 1..Len(comments) :
    ~LooseNull(comments[i].parentId) /\ Inherited(comments[i].parentId)

----------------------------------------------------------------------------
(* markDescendants of the delete route                                     *)

\* The recursion has no visited set.  A call chain longer than the number of
\* comments visits some id twice, and from there on repeats itself for ever:
\* the engine ends it with RangeError (maximum call stack size exceeded).
\* depth is the number of frames still allowed; the result is the ids added to
\* toRemove and whether the stack overflowed.
RECURSIVE markDescendants(_, _, _)
markDescendants(comments, id, depth) ==
  IF depth = 0 THEN [overflow |-> TRUE, ids |-> {}]
  ELSE LET kids == SelectSeq(comments, LAMBDA c : StrictEqualsNumber(c.parentId, id))
           subs == [i \in 1..Len(kids) |-> markDescendants(comments, kids[i].id, depth - 1)]
       IN [overflow |-> \E i \in 1..Len(kids) : subs[i].overflow,
           ids |-> {id} \cup UNION {subs[i].ids : i \in 1..Len(kids)}]

----------------------------------------------------------------------------
(* Requests                                                                *)

\* A request as the handler sees it once authMiddleware has set req.user from
\* the token: user is req.user.id, id is parseInt(req.params.id, 10), the other
\* fields are those of req.body.
Request(op, user, id, content, parentId, commentId, reaction) ==
  [op |-> op, user |-> user, id |-> id, content |-> content,
   parentId |-> parentId, commentId |-> commentId, reaction |-> reaction]

ListRequest == Request("list", 0, 0, <<>>, JsUndefined, JsUndefined, "")
\* a registration with name, email and password all given; user numbers the email
RegisterRequest(e) == Request("register", e, 0, <<>>, JsUndefined, JsUndefined, "")
CreateRequest(u, content, parentId) ==
  Request("create", u, 0, content, parentId, JsUndefined, "")
EditRequest(u, id, content) == Request("edit", u, id, content, JsUndefined, JsUndefined, "")
DeleteRequest(u, id) == Request("delete", u, id, <<>>, JsUndefined, JsUndefined, "")
ReactRequest(u, commentId, reaction) ==
  Request("react", u, 0, <<>>, JsUndefined, commentId, reaction)

NoRequest == Request("none", 0, 0, <<>>, JsUndefined, JsUndefined, "")

\* What a handler does between the end of loadDB and its next await or its
\* response: the status it answers with (0: none yet), whether it goes on to
\* saveDB(db), the dataset it holds, the id of a created comment, and whether
\* it threw.
Outcome(status, save, db, newId, threw) ==
  [status |-> status, save |-> save, db |-> db, newId |-> newId, threw |-> threw]

Respond(status, db) == Outcome(status, FALSE, db, 0, FALSE)

\* a handler that checks the reaction kind only
PreCheckKindOnly(rq) ==
  IF rq.op = "react" /\ ~(\E i \in 1..Len(valid) : valid[i] = rq.reaction) THEN 400 ELSE 0

\* lines 115, 141, 176: the checks a handler makes before it calls loadDB;
\* the status it returns with, 0 when it goes on
PreCheck(rq) ==
  CASE rq.op \in {"create", "edit"} /\ EmptyContent(rq.content) -> 400
    [] rq.op = "react" /\ ~(\E i \in 1..Len(valid) : valid[i] = rq.reaction) -> 400
    [] OTHER -> 0

\* line 117: db.users.find(u => u.id === req.user.id), <<>> for undefined
FindUser(db, id) ==
  LET hits == SelectSeq(db.users, LAMBDA u : u.id = id)
  IN IF hits = <<>> THEN <<>> ELSE <<hits[1]>>

\* a create that numbers a comment by the length of the list
NewCommentIdByCount(db) == Len(db.comments) + 1

\* line 121: db.nextCommentId++ (the value used)
NewCommentId(db) == db.nextCommentId

\* lines 117-132
CreateBody(db, rq, t) ==
  LET user == FindUser(db, rq.user)
      newComment == [id |-> NewCommentId(db),
                     userId |-> user[1].id,
                     userName |-> user[1].name,
                     content |-> Trim(rq.content),
                     createdAt |-> t,
                     updatedAt |-> <<>>,
                     parentId |-> OrNull(DefaultNull(rq.parentId)),
                     reactions |-> NoReactions]
  IN IF user = <<>> THEN Respond(401, db)
     ELSE Outcome(201, TRUE,
                  [db EXCEPT !.nextCommentId = @ + 1,
                             !.comments = Append(@, newComment)],
                  newComment.id, FALSE)

\* position in db.comments of the comment find returns, 0 for undefined
FindComment(db, id) ==
  IF \E i \in 1..Len(db.comments) : db.comments[i].id = id
  THEN CHOOSE i \in 1..Len(db.comments) :
         db.comments[i].id = id /\ \A j \in 1..(i - 1) : db.comments[j].id # id
  ELSE 0

\* an ownership check that lets everyone through
NotAllowedNever(comment, rq) == FALSE

\* lines 145, 159: comment.userId !== req.user.id
NotAllowed(comment, rq) == comment.userId # rq.user

\* an edit that takes the comment out of the list and pushes the new version
EditBodyReappends(db, rq, t) ==
  LET i == FindComment(db, rq.id)
  IN IF i = 0 THEN Respond(404, db)
     ELSE IF db.comments[i].userId # rq.user THEN Respond(403, db)
     ELSE Outcome(200, TRUE,
                  [db EXCEPT !.comments =
                     Append(RemoveAt(@, i),
                            [db.comments[i] EXCEPT !.content = Trim(rq.content),
                                                   !.updatedAt = <<t>>])],
                  0, FALSE)

\* lines 143-148
EditBody(db, rq, t) ==
  LET i == FindComment(db, rq.id)
  IN IF i = 0 THEN Respond(404, db)
     ELSE IF NotAllowed(db.comments[i], rq) THEN Respond(403, db)
     ELSE Outcome(200, TRUE,
                  [db EXCEPT !.comments[i].content = Trim(rq.content),
                             !.comments[i].updatedAt = <<t>>],
                  0, FALSE)

\* line 167: db.comments.filter(c => !toRemove.has(c.id))
RemoveMarked(comments, toRemove) == SelectSeq(comments, LAMBDA c : c.id \notin toRemove)

\* lines 157-167
DeleteBody(db, rq) ==
  LET i == FindComment(db, rq.id)
      marked == markDescendants(db.comments, rq.id, Len(db.comments))
  IN IF i = 0 THEN Respond(404, db)
     ELSE IF NotAllowed(db.comments[i], rq) THEN Respond(403, db)
     ELSE IF marked.overflow THEN Outcome(0, FALSE, db, 0, TRUE)
     ELSE Outcome(200, TRUE,
                  [db EXCEPT !.comments = RemoveMarked(@, marked.ids)],
                  0, FALSE)

\* a reaction that is only ever added
ToggleAddOnly(arr, userId) == Append(arr, userId)

\* lines 183-185: push the user id when indexOf gives -1, else splice it out
Toggle(arr, userId) ==
  LET idx == IndexOf(arr, userId)
  IN IF idx = 0 THEN Append(arr, userId) ELSE RemoveAt(arr, idx)

\* lines 178-185
ReactBody(db, rq) ==
  LET i == FindComment(db, ToNumber(rq.commentId))
  IN IF i = 0 THEN Respond(404, db)
     ELSE Outcome(200, TRUE,
                  [db EXCEPT !.comments[i].reactions[rq.reaction] = Toggle(@, rq.user)],
                  0, FALSE)

\* lines 109-110: the list route answers with the tree, or throws with it
ListBody(db) ==
  IF buildThrows(db.comments) THEN Outcome(0, FALSE, db, 0, TRUE) ELSE Respond(200, db)

\* lines 79-82: the registration answers 400 when the email is taken, else it
\* goes on to await bcrypt.hash (status 0, nothing saved yet)
RegisterCheck(db, rq) ==
  IF \E i \in 1..Len(db.users) : db.users[i].email = <<"e", rq.user>>
  THEN Respond(400, db)
  ELSE Outcome(0, FALSE, db, 0, FALSE)

\* lines 83-90: newUser takes db.nextUserId++ and is pushed to db.users
RegisterBody(db, rq) ==
  [db EXCEPT !.nextUserId = @ + 1,
             !.users = Append(@, [id |-> db.nextUserId,
                                  name |-> <<"u", rq.user>>,
                                  email |-> <<"e", rq.user>>])]

\* the handler of rq from the return of loadDB on; t is what new Date() gives
Body(db, rq, t) ==
  CASE rq.op = "create" -> CreateBody(db, rq, t)
    [] rq.op = "edit" -> EditBody(db, rq, t)
    [] rq.op = "delete" -> DeleteBody(db, rq)
    [] rq.op = "react" -> ReactBody(db, rq)
    [] rq.op = "register" -> RegisterCheck(db, rq)
    [] OTHER -> ListBody(db)

----------------------------------------------------------------------------
(* State                                                                   *)

VARIABLES
  fileExists,  \* whether db.json exists
  file,        \* the dataset db.json holds (EmptyDB while it does not exist)
  now,         \* the server's clock, in milliseconds
  req,         \* per connection: the handler running for it, or its last answer,
               \* with what the request found (pre: db.json when it arrived,
               \* loaded: what loadDB returned, met: the requests it ran beside)
  lastEmit,    \* <<payload>> of the last io.emit('comments:update', ..), <<>> before any
  assigned,    \* history: the ids of the comments answered with 201, in order
  rhist,       \* history: the latest successful reactions, at most two, with
               \* nothing else saved in between
  nReq,        \* history: the number of requests received (counted where bounded)
  deleted      \* history: the ids of the comments that deletes have removed

vars == <<fileExists, file, now, req, lastEmit, assigned, rhist, nReq, deleted>>

\* the connections that send requests
Conns == {1, 2}

\* the users whose tokens are in use; they registered before the server started
UserIds == {1, 2}

UserRecord(i) == [id |-> i, name |-> <<"u", i>>, email |-> <<"e", i>>]

\* a db.json left by an earlier run in which the two users registered
SeedDB == [users |-> <<UserRecord(1), UserRecord(2)>>, comments |-> <<>>,
           nextCommentId |-> 1, nextUserId |-> 3]

\* a connection with no request yet
Idle == [pc |-> "idle", rq |-> NoRequest, db |-> EmptyDB, status |-> 0, newId |-> 0,
         threw |-> FALSE, saveFailed |-> FALSE, emits |-> 0, tree |-> <<>>,
         pre |-> [exists |-> FALSE, file |-> EmptyDB], loaded |-> EmptyDB, met |-> 0]

\* The server starts with no db.json, or with the db.json of an earlier run.
Init ==
  /\ fileExists \in BOOLEAN
  /\ file = IF fileExists THEN SeedDB ELSE EmptyDB
  /\ now = 0
  /\ req = [r \in Conns |-> Idle]
  /\ lastEmit = <<>>
  /\ assigned = <<>>
  /\ rhist = <<>>
  /\ nReq = 0
  /\ deleted = {}

InFlight(r) == req[r].pc # "idle"

\* the reactions of comment id as sets, kind by kind; empty when there is no such comment
ReactionSets(db, id) ==
  LET i == FindComment(db, id)
  IN [k \in ValidSet |-> IF i = 0 THEN {} ELSE Range(db.comments[i].reactions[k])]

----------------------------------------------------------------------------
(* The handlers, from await to await                                       *)

\* A request arrives: the handler runs to its first await, the pathExists of
\* loadDB, or returns 400 before it.
Begin(r, rq) ==
  /\ req[r].pc = "idle"
  /\ req' = [s \in Conns |->
       IF s = r
       THEN [Idle EXCEPT !.pc = IF PreCheck(rq) = 0 THEN "exists" ELSE "idle",
                         !.rq = rq,
                         !.status = PreCheck(rq),
                         !.pre = [exists |-> fileExists, file |-> file],
                         !.met = IF PreCheck(rq) = 0
                                 THEN Cardinality({o \in Conns \ {r} : InFlight(o)})
                                 ELSE 0]
       ELSE IF InFlight(s) /\ PreCheck(rq) = 0 THEN [req[s] EXCEPT !.met = @ + 1]
       ELSE req[s]]
  /\ UNCHANGED <<fileExists, file, now, lastEmit, assigned, rhist, deleted>>

\* line 27: await fs.pathExists(DB_PATH)
PathExists(r) ==
  /\ req[r].pc = "exists"
  /\ req' = [req EXCEPT ![r].pc = IF fileExists THEN "read" ELSE "init"]
  /\ UNCHANGED <<fileExists, file, now, lastEmit, assigned, rhist, nReq, deleted>>

\* line 28: await fs.writeJson(DB_PATH, {users: [], comments: [], ...})
InitWrite(r) ==
  /\ req[r].pc = "init"
  /\ fileExists' = TRUE
  /\ file' = EmptyDB
  /\ req' = [req EXCEPT ![r].pc = "read"]
  /\ UNCHANGED <<now, lastEmit, assigned, rhist, nReq, deleted>>

\* line 30 and the handler up to its saveDB or its response: fs.readJson gives
\* the file as it is now; tick is how far the clock has moved on when a create
\* reads it
ReadJson(r, tick) ==
  /\ req[r].pc = "read"
  /\ LET rq == req[r].rq
         t == IF rq.op = "create" THEN now + tick ELSE now
         out == Body(file, rq, t)
     IN /\ now' = IF out.save THEN t ELSE now
        /\ req' = [req EXCEPT ![r] =
             IF out.threw THEN [@ EXCEPT !.pc = "idle", !.threw = TRUE, !.loaded = file]
             ELSE IF out.save
             THEN [@ EXCEPT !.pc = "save", !.db = out.db, !.status = out.status,
                            !.newId = out.newId, !.loaded = file]
             ELSE IF rq.op = "register" /\ out.status = 0
             THEN [@ EXCEPT !.pc = "hash", !.db = out.db, !.loaded = file]
             ELSE [@ EXCEPT !.pc = "idle", !.status = out.status, !.loaded = file,
                            !.tree = IF rq.op = "list"
                                     THEN buildCommentsTree(out.db.comments)
                                     ELSE <<>>]]
  /\ UNCHANGED <<fileExists, file, lastEmit, assigned, rhist, nReq, deleted>>

\* line 82: await bcrypt.hash(password, 10) is over; the registration adds
\* the user to the dataset it loaded before the await and calls saveDB
Hashed(r) ==
  /\ req[r].pc = "hash"
  /\ req' = [req EXCEPT ![r].pc = "save", ![r].status = 200,
                         ![r].db = RegisterBody(@, req[r].rq)]
  /\ UNCHANGED <<fileExists, file, now, lastEmit, assigned, rhist, nReq, deleted>>

\* the ids of the comments of a dataset
IdsOf(db) == {db.comments[i].id : i \in 1..Len(db.comments)}

\* lines 36-38: the write of saveDB reaches the file
SaveWrite(r) ==
  /\ req[r].pc = "save"
  /\ file' = req[r].db
  /\ fileExists' = TRUE
  /\ req' = [req EXCEPT ![r].pc = "written"]
  /\ deleted' = IF req[r].rq.op = "delete"
                THEN deleted \cup (IdsOf(req[r].loaded) \ IdsOf(req[r].db))
                ELSE deleted
  /\ UNCHANGED <<now, lastEmit, assigned, rhist, nReq>>

\* a handler that catches the rejection of saveDB and goes on
SaveFailsSwallowed(r) ==
  /\ req[r].pc = "save"
  /\ req' = [req EXCEPT ![r].pc = "written", ![r].saveFailed = TRUE]
  /\ UNCHANGED <<fileExists, file, now, lastEmit, assigned, rhist, nReq, deleted>>

\* lines 36-38: fs.writeJson rejects (the store's save fails as a whole and
\* leaves db.json as it was); no handler catches it, so the handler ends at
\* its `await saveDB(db)` without an emit and without a response
SaveFails(r) ==
  /\ req[r].pc = "save"
  /\ req' = [req EXCEPT ![r].pc = "idle", ![r].status = 0, ![r].saveFailed = TRUE,
                         ![r].db = EmptyDB]
  /\ UNCHANGED <<fileExists, file, now, lastEmit, assigned, rhist, nReq, deleted>>

\* connection r's handler publishes when it resumes after saveDB: every
\* route that saves but the registration calls io.emit
Publishes(r) == req[r].rq.op # "register"

\* lines 134-135, 150-151, 169-170, 188-189, 92-93: the handler resumes after
\* saveDB, emits the tree of the dataset it holds and answers.  When
\* buildCommentsTree throws in the argument of io.emit the handler ends there:
\* the dataset is saved, nothing is emitted and no response is sent.
AfterSave(r) ==
  /\ req[r].pc = "written"
  /\ LET throws == Publishes(r) /\ buildThrows(req[r].db.comments)
         emit == Publishes(r) /\ ~throws
     IN /\ lastEmit' = IF emit THEN <<buildCommentsTree(req[r].db.comments)>> ELSE lastEmit
        /\ req' = [req EXCEPT ![r].pc = "idle",
                               ![r].emits = IF emit THEN @ + 1 ELSE @,
                               ![r].status = IF throws THEN 0 ELSE @,
                               ![r].threw = throws,
                               ![r].db = EmptyDB]
        /\ assigned' = IF req[r].rq.op = "create" /\ ~throws
                       THEN Append(assigned, req[r].newId)
                       ELSE assigned
        /\ rhist' = IF req[r].rq.op = "react" /\ ~throws
                    THEN (IF rhist = <<>> THEN <<>> ELSE <<rhist[Len(rhist)]>>)
                         \o <<[user |-> req[r].rq.user,
                               id |-> ToNumber(req[r].rq.commentId),
                               kind |-> req[r].rq.reaction,
                               before |-> ReactionSets(req[r].pre.file,
                                                       ToNumber(req[r].rq.commentId))]>>
                    ELSE <<>>
  /\ UNCHANGED <<fileExists, file, now, nReq, deleted>>

----------------------------------------------------------------------------
(* Specifications                                                          *)

\* the number of creates answered with 201 or still running
Creates == Len(assigned) + Cardinality({r \in Conns : InFlight(r) /\ req[r].rq.op = "create"})

\* a request on connection r, with at most maxCreates creates in all
Receive(r, rq, maxCreates) ==
  /\ rq.op = "create" => Creates < maxCreates
  /\ Begin(r, rq)
  /\ UNCHANGED nReq

\* One connection, one request at a time: threads of comments.  One user
\* creates comments, as roots or with a parentId sent as a number or as a
\* string, and deletes them.
MaxThreadCreates == 3

Contents == {<<"a">>}

ThreadRequests ==
  {CreateRequest(1, c, p) : c \in Contents,
                            p \in {JsUndefined, JsNum(1), JsNum(2), JsStr(1)}}
    \cup {DeleteRequest(1, i) : i \in 1..MaxThreadCreates}

NextThreads ==
  \/ \E rq \in ThreadRequests : Receive(1, rq, MaxThreadCreates)
  \/ PathExists(1)
  \/ InitWrite(1)
  \/ ReadJson(1, 0)
  \/ SaveWrite(1)
  \/ AfterSave(1)

SpecThreads == Init /\ [][NextThreads]_vars

\* One connection, one request at a time: ownership.  Two users create
\* comments, roots and replies to the first comment; each edits and deletes
\* comments, its own and the other's, with contents that are empty, blank or
\* not.
MaxOwnerCreates == 2

OwnerRequests ==
  {CreateRequest(u, <<"a">>, p) : u \in UserIds, p \in {JsUndefined, JsNum(1)}}
    \cup {EditRequest(u, i, c) : u \in UserIds, i \in 1..MaxOwnerCreates,
                                 c \in {<<>>, <<" ">>, <<" ", "b">>}}
    \cup {DeleteRequest(u, i) : u \in UserIds, i \in 1..MaxOwnerCreates}

NextOwner ==
  \/ \E rq \in OwnerRequests : Receive(1, rq, MaxOwnerCreates)
  \/ PathExists(1)
  \/ InitWrite(1)
  \/ ReadJson(1, 0)
  \/ SaveWrite(1)
  \/ AfterSave(1)

SpecOwner == Init /\ [][NextOwner]_vars

\* One connection, one request at a time: reactions.  A user creates root
\* comments and reacts to them with two of the six kinds and with a word that
\* is no kind, naming the comment by a number or by a numeral string; another
\* user likes them.
MaxReactCreates == 1

ReactRequests ==
  {CreateRequest(1, <<"a">>, JsUndefined)}
    \cup {ReactRequest(1, c, k) :
            c \in {JsNum(i) : i \in 1..MaxReactCreates} \cup {JsStr(1)},
            k \in {"like", "love", "boo"}}
    \cup {ReactRequest(2, JsNum(i), "like") : i \in 1..MaxReactCreates}

NextReact ==
  \/ \E rq \in ReactRequests : Receive(1, rq, MaxReactCreates)
  \/ PathExists(1)
  \/ InitWrite(1)
  \/ ReadJson(1, 0)
  \/ SaveWrite(1)
  \/ AfterSave(1)

SpecReact == Init /\ [][NextReact]_vars

\* One connection, one request at a time: the tree.  A user creates comments,
\* roots and replies at any depth, while the clock stands or moves on, and
\* lists them.
MaxTreeCreates == 5

TreeRequests ==
  {CreateRequest(1, <<"a">>, p) :
     p \in {JsUndefined, JsNum(1), JsNum(2)}}
    \cup {ListRequest}

NextTree ==
  \/ \E rq \in TreeRequests : Receive(1, rq, MaxTreeCreates)
  \/ PathExists(1)
  \/ InitWrite(1)
  \/ \E tick \in {0, 1} : ReadJson(1, tick)
  \/ SaveWrite(1)
  \/ AfterSave(1)

SpecTree == Init /\ [][NextTree]_vars

\* One connection, one request at a time: errors.  A user creates root
\* comments with contents that are empty, blank or not; a user the dataset
\* does not hold tries to; comments that exist or not are edited, deleted and
\* reacted to, with a reaction kind or with a word that is none; a save may
\* fail.
MaxErrorCreates == 1

ErrorRequests ==
  {CreateRequest(u, c, JsUndefined) : u \in {1, 3}, c \in {<<>>, <<" ">>, <<"a">>}}
    \cup {EditRequest(1, i, c) : i \in 1..(MaxErrorCreates + 1), c \in {<<>>, <<"b">>}}
    \cup {DeleteRequest(1, i) : i \in 1..(MaxErrorCreates + 1)}
    \cup {ReactRequest(1, JsNum(i), k) : i \in 1..(MaxErrorCreates + 1), k \in {"like", "boo"}}
    \cup {ReactRequest(1, JsUndefined, "like")}

NextErrors ==
  \/ \E rq \in ErrorRequests : Receive(1, rq, MaxErrorCreates)
  \/ PathExists(1)
  \/ InitWrite(1)
  \/ ReadJson(1, 0)
  \/ SaveWrite(1)
  \/ SaveFails(1)
  \/ AfterSave(1)

SpecErrors == Init /\ [][NextErrors]_vars

\* a request on connection r, with at most maxRequests requests in all
ReceiveBounded(r, rq, maxRequests) ==
  /\ nReq < maxRequests
  /\ Begin(r, rq)
  /\ nReq' = nReq + 1

\* One connection, one request at a time: parentIds of every kind.  A user
\* creates comments whose parentId is absent, a number, a numeral string or
\* the name of an inherited property, naming a comment that exists, one that
\* does not exist yet or none at all, and lists the comments.
MaxOrphanRequests == 4

OrphanRequests ==
  {CreateRequest(1, <<"a">>, p) :
     p \in {JsUndefined, JsNum(1), JsNum(2), JsStr(1), JsProtoKey}}
    \cup {ListRequest}

NextOrphans ==
  \/ \E rq \in OrphanRequests : ReceiveBounded(1, rq, MaxOrphanRequests)
  \/ PathExists(1)
  \/ InitWrite(1)
  \/ ReadJson(1, 0)
  \/ SaveWrite(1)
  \/ AfterSave(1)

SpecOrphans == Init /\ [][NextOrphans]_vars

\* Two connections whose requests interleave at the awaits.  A user creates
\* root comments, edits and deletes the first comment; another user reacts to
\* it.  The number of requests is bounded.
MaxRequests == 3

ConcurrentRequests ==
  {CreateRequest(1, <<"a">>, JsUndefined),
   EditRequest(1, 1, <<"b">>),
   DeleteRequest(1, 1),
   ReactRequest(2, JsNum(1), "like")}

ReceiveCounted(r, rq) ==
  /\ nReq < MaxRequests
  /\ Begin(r, rq)
  /\ nReq' = nReq + 1

NextConcurrent ==
  \E r \in Conns :
    \/ \E rq \in ConcurrentRequests : ReceiveCounted(r, rq)
    \/ PathExists(r)
    \/ InitWrite(r)
    \/ ReadJson(r, 0)
    \/ SaveWrite(r)
    \/ AfterSave(r)

SpecConcurrent == Init /\ [][NextConcurrent]_vars

\* Two connections whose requests interleave at the awaits: first use.  A
\* user registers, creates a root comment and lists the comments, on a
\* server that starts with or without a db.json.
MaxFirstUseRequests == 3

FirstUseRequests ==
  {RegisterRequest(1), CreateRequest(1, <<"a">>, JsUndefined), ListRequest}

NextFirstUse ==
  \E r \in Conns :
    \/ \E rq \in FirstUseRequests : ReceiveBounded(r, rq, MaxFirstUseRequests)
    \/ PathExists(r)
    \/ InitWrite(r)
    \/ ReadJson(r, 0)
    \/ Hashed(r)
    \/ SaveWrite(r)
    \/ AfterSave(r)

SpecFirstUse == Init /\ [][NextFirstUse]_vars

\* no handler is running
Quiet == \A r \in Conns : ~InFlight(r)

----------------------------------------------------------------------------
(* C1: over any sequence of creates and deletes run one after another, the *)
(* ids answered by successful creates are strictly increasing, so none is  *)
(* assigned twice, also when comments were deleted in between.             *)
IdsStrictlyIncreasing ==
  \A i, j \in 1..Len(assigned) : i < j => assigned[i] < assigned[j]

\* three creates have succeeded and a comment created before the last one has
\* been deleted
IdsAfterDeleteReached ==
  /\ Len(assigned) = 3
  /\ \E i \in 1..2 : FindComment(file, assigned[i]) = 0
  /\ FindComment(file, assigned[3]) # 0

----------------------------------------------------------------------------
\* the connection's last request was answered with this status
Answered(r, op, status) ==
  /\ req[r].pc = "idle"
  /\ req[r].rq.op = op
  /\ req[r].status = status
  /\ ~req[r].threw

\* parentId p names the comment with this id: the link as the tree shows it
Names(p, id) == ~LooseNull(p) /\ KeyIs(p, id)

\* the ids of the comments reachable from the ids in S by following parentId
\* links from child to parent, S included
RECURSIVE Reachable(_, _)
Reachable(comments, S) ==
  LET more == {c.id : c \in {d \in Range(comments) : \E id \in S : Names(d.parentId, id)}}
  IN IF more \subseteq S THEN S ELSE Reachable(comments, S \cup more)

(* C4: a successful delete of comment X by its author removes from the     *)
(* flat list X and every comment reachable from X through parentId links,  *)
(* at any depth, and removes no other comment.                             *)
DeleteRemovesExactlyDescendants ==
  \A r \in Conns :
    Answered(r, "delete", 200) =>
      file.comments =
        SelectSeq(req[r].pre.file.comments,
                  LAMBDA c : c.id \notin Reachable(req[r].pre.file.comments, {req[r].rq.id}))

(* C5: the cascade of a delete terminates on every dataset the API can     *)
(* produce, cyclic parentId links included: no delete ends in the          *)
(* recursion exhausting the stack, every delete is answered.               *)
DeleteAlwaysCompletes ==
  \A r \in Conns : ~req[r].threw

(* C10: a create with a non-null parentId stores its comment only if the   *)
(* parentId names a comment that exists when it is created (no forward     *)
(* reference, no reference to itself), and every stored comment with a     *)
(* non-null parentId has its parent in the store.                          *)
ParentsExist ==
  /\ \A c \in Range(file.comments) :
       ~LooseNull(c.parentId) => \E d \in Range(file.comments) : Names(c.parentId, d.id)
  /\ \A r \in Conns :
       (Answered(r, "create", 201) /\ ~Falsy(req[r].rq.parentId)) =>
         \E d \in Range(req[r].pre.file.comments) : Names(req[r].rq.parentId, d.id)

----------------------------------------------------------------------------
\* the comment with this id in db (there is one)
CommentOf(db, id) == db.comments[FindComment(db, id)]

\* connection r's last request was an edit or a delete of a comment that
\* existed when the request arrived and belonged to another user
ByOtherUser(r) ==
  /\ req[r].pc = "idle"
  /\ req[r].rq.op \in {"edit", "delete"}
  /\ FindComment(req[r].pre.file, req[r].rq.id) # 0
  /\ CommentOf(req[r].pre.file, req[r].rq.id).userId # req[r].rq.user

\* connection r's last request left db.json as it was and emitted nothing
NothingDone(r) ==
  /\ file = req[r].pre.file
  /\ fileExists = req[r].pre.exists
  /\ req[r].emits = 0

(* C7 as stated: an edit or a delete of an existing comment by a user who  *)
(* is not its author is answered 403, leaves the dataset as it was and     *)
(* sends no broadcast.                                                     *)
OthersAlwaysForbidden ==
  \A r \in Conns : ByOtherUser(r) => req[r].status = 403 /\ NothingDone(r)

(* C7 as amended: an edit with content that is not empty after trimming,   *)
(* or a delete, of an existing comment by a user who is not its author is  *)
(* answered 403; an edit with empty or blank content is answered 400       *)
(* whoever sends it; in both cases the dataset is as it was and no         *)
(* broadcast is sent.                                                      *)
OthersForbiddenOrInvalid ==
  \A r \in Conns :
    ByOtherUser(r) =>
      /\ req[r].status =
           IF req[r].rq.op = "edit" /\ EmptyContent(req[r].rq.content) THEN 400 ELSE 403
      /\ NothingDone(r)

\* a user has been refused the edit of another user's comment, after a broadcast
ForbiddenEditReached ==
  /\ ByOtherUser(1)
  /\ Answered(1, "edit", 403)
  /\ lastEmit # <<>>

----------------------------------------------------------------------------
\* the two latest reactions were by the same user on the same comment
SameUserTwice ==
  /\ Quiet
  /\ Len(rhist) = 2
  /\ rhist[1].user = rhist[2].user
  /\ rhist[1].id = rhist[2].id

(* C6 as stated: two successive reactions of one user with one kind on one *)
(* comment give the comment the reactions it had; like followed by love of *)
(* one user leaves the user in the like set and in the love set, the other *)
(* kinds as they were.                                                     *)
ReactTwiceOriginal ==
  SameUserTwice =>
    LET sets == ReactionSets(file, rhist[2].id)
    IN /\ rhist[1].kind = rhist[2].kind => sets = rhist[1].before
       /\ (rhist[1].kind = "like" /\ rhist[2].kind = "love") =>
            /\ rhist[1].user \in sets["like"]
            /\ rhist[1].user \in sets["love"]
            /\ \A k \in ValidSet \ {"like", "love"} : sets[k] = rhist[1].before[k]

\* the set S with x put in if it was out, taken out if it was in
Flip(S, x) == IF x \in S THEN S \ {x} ELSE S \cup {x}

(* C6 as amended: a successful reaction flips the user's membership in the *)
(* set of its kind and changes no other set and no other member; two       *)
(* successive reactions of one user with one kind on one comment give the  *)
(* comment the reactions it had; like followed by love of a user who was   *)
(* in neither set leaves the user in both, the other kinds as they were.   *)
ReactIsToggle ==
  /\ (Quiet /\ rhist # <<>>) =>
       LET e == rhist[Len(rhist)]
       IN ReactionSets(file, e.id) =
            [k \in ValidSet |-> IF k = e.kind THEN Flip(e.before[k], e.user) ELSE e.before[k]]
  /\ SameUserTwice =>
       LET sets == ReactionSets(file, rhist[2].id)
       IN /\ rhist[1].kind = rhist[2].kind => sets = rhist[1].before
          /\ (/\ rhist[1].kind = "like"
              /\ rhist[2].kind = "love"
              /\ rhist[1].user \notin rhist[1].before["like"]
              /\ rhist[1].user \notin rhist[1].before["love"]) =>
               /\ rhist[1].user \in sets["like"]
               /\ rhist[1].user \in sets["love"]
               /\ \A k \in ValidSet \ {"like", "love"} : sets[k] = rhist[1].before[k]

\* a user has reacted twice in a row with like to a comment that another user
\* likes
ReactTwiceReached ==
  /\ SameUserTwice
  /\ rhist[1].kind = "like"
  /\ rhist[2].kind = "like"
  /\ rhist[1].before["like"] # {}
  /\ rhist[1].user \notin rhist[1].before["like"]

----------------------------------------------------------------------------
\* the nodes of a tree, at every depth
RECURSIVE NodesOf(_)
NodesOf(tree) ==
  UNION {{tree[i]} \cup NodesOf(tree[i].replies) : i \in 1..Len(tree)}

\* the roots of tree are in descending createdAt order, and under every node
\* the replies are in the order in which the flat list holds them, oldest first
Ordered(tree, flat) ==
  /\ \A i, j \in 1..Len(tree) : i < j => tree[i].createdAt >= tree[j].createdAt
  /\ \A n \in NodesOf(tree) :
       \A i, j \in 1..Len(n.replies) :
         i < j =>
           /\ \E a, b \in 1..Len(flat) :
                a < b /\ flat[a].id = n.replies[i].id /\ flat[b].id = n.replies[j].id
           /\ n.replies[i].createdAt <= n.replies[j].createdAt

(* C8: in the tree a list request returns and in the tree of every         *)
(* broadcast, the roots are in descending createdAt order and the replies  *)
(* of any one parent are in insertion order, oldest first, at every depth. *)
TreesOrdered ==
  /\ lastEmit # <<>> => Ordered(lastEmit[1], file.comments)
  /\ \A r \in Conns : Answered(r, "list", 200) => Ordered(req[r].tree, file.comments)

\* a list request has returned a tree with two roots created at different
\* times and, below the roots, a comment with two replies created at different
\* times
OrderedTreeReached ==
  /\ Answered(1, "list", 200)
  /\ \E i, j \in 1..Len(req[1].tree) : req[1].tree[i].createdAt # req[1].tree[j].createdAt
  /\ \E n \in NodesOf(req[1].tree) :
       /\ ~LooseNull(n.parentId)
       /\ Len(n.replies) = 2
       /\ n.replies[1].createdAt # n.replies[2].createdAt
  /\ lastEmit = <<req[1].tree>>

----------------------------------------------------------------------------
\* connection r's last request was a mutation answered with success
Succeeded(r) ==
  \/ Answered(r, "create", 201)
  \/ \E op \in {"edit", "delete", "react"} : Answered(r, op, 200)

\* the last requests of r1 and r2 ran at the same time, and no other request
\* ran during either
Overlapped(r1, r2) == r1 # r2 /\ req[r1].met = 1 /\ req[r2].met = 1

\* db shows what connection r's last request, a successful mutation, did
Reflects(db, r) ==
  LET rq == req[r].rq
  IN CASE rq.op = "create" ->
            \E c \in Range(db.comments) :
              c.id = req[r].newId /\ c.userId = rq.user /\ c.content = Trim(rq.content)
       [] rq.op = "edit" ->
            \E c \in Range(db.comments) : c.id = rq.id /\ c.content = Trim(rq.content)
       [] rq.op = "delete" -> FindComment(db, rq.id) = 0
       [] rq.op = "react" ->
            LET id == ToNumber(rq.commentId)
            IN /\ FindComment(db, id) # 0
               /\ rq.user \in ReactionSets(db, id)[rq.reaction]
                    <=> rq.user \notin ReactionSets(req[r].loaded, id)[rq.reaction]
       [] OTHER -> TRUE

\* the comment connection r's last request is about
TargetOf(r) ==
  CASE req[r].rq.op = "create" -> req[r].newId
    [] req[r].rq.op = "react" -> ToNumber(req[r].rq.commentId)
    [] OTHER -> req[r].rq.id

\* neither request undoes or replaces what the other does: both are creates,
\* or they are about different comments, or one of them reacts and the other
\* creates the comment or edits it, or they are reactions of different users
\* or kinds
Independent(r1, r2) ==
  LET ops == {req[r1].rq.op, req[r2].rq.op}
  IN \/ ops = {"create"}
     \/ TargetOf(r1) # TargetOf(r2)
     \/ ops = {"edit", "react"}
     \/ ops = {"create", "react"}
     \/ /\ ops = {"react"}
        /\ <<req[r1].rq.user, req[r1].rq.reaction>> # <<req[r2].rq.user, req[r2].rq.reaction>>

(* C2: two creates that run at the same time never get the same id, and    *)
(* neither overwrites what the other appended: once both have succeeded    *)
(* the persisted list holds both new comments, with distinct ids.          *)
ConcurrentCreatesBothKept ==
  \A r1, r2 \in Conns :
    (/\ Overlapped(r1, r2)
     /\ Answered(r1, "create", 201)
     /\ Answered(r2, "create", 201)) =>
      /\ req[r1].newId # req[r2].newId
      /\ Reflects(file, r1)
      /\ Reflects(file, r2)

(* C3: of two mutations whose load-mutate-save cycles overlap no write is  *)
(* lost: once both have returned success the persisted dataset shows what  *)
(* both did.                                                               *)
NoLostUpdate ==
  \A r1, r2 \in Conns :
    (/\ Overlapped(r1, r2)
     /\ Succeeded(r1)
     /\ Succeeded(r2)
     /\ Independent(r1, r2)) =>
      Reflects(file, r1) /\ Reflects(file, r2)

(* C9: every successful create, edit, delete or react publishes exactly    *)
(* one comments:update, and the tree it carries is the tree of the flat    *)
(* list persisted at the moment of publishing, also when other mutations   *)
(* are in flight.                                                          *)
BroadcastIsPersistedTree ==
  [][\A r \in Conns :
       (req[r].pc = "written" /\ req'[r].pc = "idle") =>
         /\ req'[r].emits = 1
         /\ lastEmit' = <<buildCommentsTree(file'.comments)>>]_vars

----------------------------------------------------------------------------
(* C11: deleted is terminal.  Once a delete has removed a comment id, no   *)
(* later request and no save of a request that loaded the dataset before   *)
(* the delete makes a comment with that id appear in the persisted         *)
(* dataset again.                                                          *)
DeletedStaysDeleted ==
  \A i \in 1..Len(file.comments) : file.comments[i].id \notin deleted

----------------------------------------------------------------------------
\* the comment objects of a list as a run of buildCommentsTree leaves them
InputAfter(comments, run) == SubSeq(run.heap, 1, Len(comments))

(* C12: buildCommentsTree is pure and deterministic.  Applied to a flat    *)
(* list it leaves the list and every comment record of it as they were     *)
(* (same order, no replies field on a stored comment: the nodes are        *)
(* copies), and applied a second time to the same list it returns a tree   *)
(* with the same ids, the same nesting and the same order; that tree is    *)
(* the one the list route answers with.  The lists are those db.json holds *)
(* between two requests.                                                   *)
TreeBuildIsPure ==
  Quiet =>
    LET first == TreeRun(file.comments)
        left == InputAfter(file.comments, first)
        second == TreeRun(left)
    IN /\ left = file.comments
       /\ second.result = first.result
       /\ InputAfter(left, second) = file.comments
       /\ first.result = buildCommentsTree(file.comments)
       /\ \A r \in Conns : Answered(r, "list", 200) => req[r].tree = first.result

\* a list request has returned a tree in which a reply has a reply and two
\* roots stand in the reverse of their order in the flat list
PureTreeReached ==
  /\ Answered(1, "list", 200)
  /\ req[1].tree = TreeRun(file.comments).result
  /\ \E n \in NodesOf(req[1].tree) :
       ~LooseNull(n.parentId) /\ n.replies # <<>>
  /\ Len(req[1].tree) >= 2
  /\ req[1].tree[1].id > req[1].tree[2].id

----------------------------------------------------------------------------
(* C13: a successful edit changes only the content and the updatedAt of    *)
(* its comment: the comment's id, userId, userName, createdAt, parentId    *)
(* and reactions, every other comment, the order of the flat list, the     *)
(* users and both counters are as they were.                               *)
EditChangesContentOnly ==
  \A r \in Conns :
    Answered(r, "edit", 200) =>
      LET old == req[r].pre.file
          i == FindComment(old, req[r].rq.id)
      IN /\ i # 0
         /\ file.users = old.users
         /\ file.nextCommentId = old.nextCommentId
         /\ file.nextUserId = old.nextUserId
         /\ Len(file.comments) = Len(old.comments)
         /\ \A j \in 1..Len(old.comments) :
              IF j = i
              THEN /\ \A f \in {"id", "userId", "userName", "createdAt", "parentId", "reactions"} :
                        file.comments[j][f] = old.comments[j][f]
                   /\ DOMAIN file.comments[j] = DOMAIN old.comments[j]
                   /\ file.comments[j].content = Trim(req[r].rq.content)
                   /\ file.comments[j].updatedAt # <<>>
              ELSE file.comments[j] = old.comments[j]

\* a user has edited the first of two comments, a comment with a reply by
\* the other user
EditReached ==
  /\ Answered(1, "edit", 200)
  /\ Len(file.comments) = 2
  /\ file.comments[1].id = req[1].rq.id
  /\ file.comments[1].content # req[1].pre.file.comments[1].content
  /\ file.comments[2].userId # file.comments[1].userId
  /\ Names(file.comments[2].parentId, file.comments[1].id)

----------------------------------------------------------------------------
\* the status a request that has to be rejected gets, 0 for a request that
\* has not: in terms of the request and of the dataset it arrived at
RejectedWith(rq, db) ==
  CASE rq.op \in {"create", "edit"} /\ EmptyContent(rq.content) -> 400
    [] rq.op = "create" /\ FindUser(db, rq.user) = <<>> -> 401
    [] rq.op \in {"edit", "delete"} /\ FindComment(db, rq.id) = 0 -> 404
    [] rq.op = "react" /\ rq.reaction \notin ValidSet -> 400
    [] rq.op = "react" /\ FindComment(db, ToNumber(rq.commentId)) = 0 -> 404
    [] OTHER -> 0

(* C14: every rejected mutation leaves the persisted dataset as it was,    *)
(* takes no comment id and sends no broadcast: a create with empty or      *)
(* blank content (400), a create by an identity that is no stored user     *)
(* (401), an edit with empty content (400), an edit, delete or reaction    *)
(* on a comment id that does not exist (404), a reaction with a kind       *)
(* outside the six (400).                                                  *)
RejectedLeavesNoTrace ==
  \A r \in Conns :
    (req[r].pc = "idle" /\ RejectedWith(req[r].rq, req[r].pre.file) # 0) =>
      /\ req[r].status = RejectedWith(req[r].rq, req[r].pre.file)
      /\ file = req[r].pre.file
      /\ file.nextCommentId = req[r].pre.file.nextCommentId
      /\ req[r].emits = 0
      /\ ~req[r].threw /\ ~req[r].saveFailed

\* a reaction to a comment id that does not exist has been answered 404
\* while the store holds a comment and a broadcast has been sent
RejectedReached ==
  /\ Answered(1, "react", 404)
  /\ req[1].rq.commentId = JsNum(2)
  /\ Len(file.comments) = 1
  /\ lastEmit # <<>>

(* C15: when the save of a mutation fails the mutation fails as a whole:   *)
(* the persisted dataset keeps the value it had, no comments:update is     *)
(* sent for the mutation and the caller gets no success response, so the   *)
(* tree last sent to the viewers is the tree of the persisted list.        *)
FailedSaveLeavesNoTrace ==
  /\ \A r \in Conns :
       req[r].saveFailed =>
         /\ file = req[r].pre.file
         /\ fileExists
         /\ req[r].emits = 0
         /\ req[r].status \notin {200, 201}
  /\ (lastEmit # <<>> /\ \A r \in Conns : req[r].pc # "written") =>
       lastEmit[1] = buildCommentsTree(file.comments)

\* the save of an edit has failed, after a create whose save went through
\* and was broadcast
FailedSaveReached ==
  /\ req[1].saveFailed
  /\ req[1].pc = "idle"
  /\ req[1].rq.op = "edit"
  /\ Len(file.comments) = 1
  /\ file.comments[1].content # Trim(req[1].rq.content)
  /\ lastEmit # <<>>

----------------------------------------------------------------------------
(* C16: in every reachable state every stored comment's reactions have     *)
(* exactly the six keys like, love, haha, wow, sad, angry, and no value    *)
(* holds a user id more than once, whatever the sequence and the           *)
(* interleaving of creates and reactions (edits and deletes too).          *)
ReactionsWellFormed ==
  \A i \in 1..Len(file.comments) :
    LET reactions == file.comments[i].reactions
    IN /\ DOMAIN reactions = {"like", "love", "haha", "wow", "sad", "angry"}
       /\ \A k \in DOMAIN reactions :
            \A a, b \in 1..Len(reactions[k]) : a # b => reactions[k][a] # reactions[k][b]

\* two reactions of one user with one kind to one comment ran at the same
\* time, both were answered with success, and the stored comment holds the
\* user's reaction
ReactionRaceReached ==
  /\ Overlapped(1, 2)
  /\ Answered(1, "react", 200)
  /\ Answered(2, "react", 200)
  /\ FindComment(file, 1) # 0
  /\ CommentOf(file, 1).reactions["like"] = <<2>>

----------------------------------------------------------------------------
\* following the parentId links from the comment with this id reaches, in at
\* most fuel steps and through comments of the list only, a comment whose
\* parentId is null
RECURSIVE Rooted(_, _, _)
Rooted(comments, id, fuel) ==
  \E c \in Range(comments) :
    /\ c.id = id
    /\ \/ LooseNull(c.parentId)
       \/ /\ fuel > 0
          /\ \E d \in Range(comments) :
               Names(c.parentId, d.id) /\ Rooted(comments, d.id, fuel - 1)

\* the number of nodes of a tree, at every depth, with this id
RECURSIVE CountIn(_, _)
CountIn(tree, id) ==
  IF tree = <<>> THEN 0
  ELSE (IF Head(tree).id = id THEN 1 ELSE 0)
         + CountIn(Head(tree).replies, id) + CountIn(Tail(tree), id)

(* C17: buildCommentsTree never throws, and it shows a stored comment      *)
(* exactly once, at the root when its parentId is null and else among the  *)
(* replies of its parent, if following its parentId links reaches a        *)
(* comment with null parentId through comments of the list, and not at all *)
(* otherwise: a comment whose parent is missing is dropped with its        *)
(* descendants.                                                            *)
TreeShowsRootedOnce ==
  /\ \A r \in Conns : ~req[r].threw
  /\ ~buildThrows(file.comments)
  /\ LET tree == buildCommentsTree(file.comments)
     IN /\ \A c \in Range(file.comments) :
             CountIn(tree, c.id) =
               IF Rooted(file.comments, c.id, Len(file.comments)) THEN 1 ELSE 0
        /\ \A i \in 1..Len(tree) : LooseNull(tree[i].parentId)
        /\ \A n \in NodesOf(tree) :
             \A i \in 1..Len(n.replies) : Names(n.replies[i].parentId, n.id)

----------------------------------------------------------------------------
(* C18: delete and buildCommentsTree agree on who is whose reply, whatever *)
(* value a client sent as parentId (the number 1 or the string "1"): when  *)
(* a delete of comment X succeeds, the comments it removes are the nodes   *)
(* of the subtree the tree showed at X, so no comment shown as a reply of  *)
(* X is left in the store.                                                 *)
DeleteRemovesShownSubtree ==
  \A r \in Conns :
    Answered(r, "delete", 200) =>
      LET old == req[r].pre.file
          shown == {n \in NodesOf(buildCommentsTree(old.comments)) : n.id = req[r].rq.id}
      IN \A n \in shown :
           /\ IdsOf(old) \ IdsOf(file) = {m.id : m \in NodesOf(<<n>>)}
           /\ \A i \in 1..Len(n.replies) : FindComment(file, n.replies[i].id) = 0

----------------------------------------------------------------------------
(* C19: a comment leaves the store only through a successful delete issued *)
(* by the comment's own author; the delete of an ancestor by the           *)
(* ancestor's author does not remove the replies other users wrote.        *)
OnlyAuthorRemoves ==
  [][\A i \in 1..Len(file.comments) :
       file.comments[i].id \notin IdsOf(file') =>
         \E r \in Conns :
           /\ req[r].pc = "save" /\ req'[r].pc = "written"
           /\ req[r].rq.op = "delete"
           /\ req[r].rq.user = file.comments[i].userId]_vars

----------------------------------------------------------------------------
(* C20: first use is safe under interleaving.  When db.json does not exist *)
(* and several requests call loadDB at the same time, the empty dataset    *)
(* with counters 1 is written only while nothing else has been persisted:  *)
(* the write of loadDB never replaces a dataset that another request has   *)
(* saved, so it resets no users, no comments and no counter.               *)
FirstUseInitSafe ==
  [][\A r \in Conns :
       (req[r].pc = "init" /\ req'[r].pc = "read") =>
         /\ file'.users = file.users
         /\ file'.comments = file.comments
         /\ file'.nextCommentId = file.nextCommentId
         /\ file'.nextUserId = file.nextUserId]_vars

====
